---- MODULE Spec2Model ----
(***************************************************************************)
(* A model of the Sudoku solver of cs480_hw2: the board and its constraint *)
(* checks (checking.cpp), the trivial-move propagator (trivial_moves.cpp)  *)
(* and the depth-first search of Sudoku::solve (solve.cpp).                *)
(*                                                                         *)
(* A board is the std::array<char, 81> m_data: a tuple of 81 character     *)
(* codes in row-major order.  Rows and columns are numbered 0..8 as in the *)
(* source; mdview(b, row, col) is the mdspan indexing.                     *)
(***************************************************************************)
EXTENDS Integers, Sequences, FiniteSets, TLC

VARIABLES
  board,             \* *this: the caller's board
  entry,             \* value of the caller's board when the operation was entered
  cb,                \* the optimization_callback handed to solve
  ndebug,            \* TRUE: release build (assert compiled out); FALSE: debug build
  pc,                \* position of the program
  frontier,          \* std::stack<Search_Node>, top is the last element
  assignment_count,  \* the counter solve returns
  op,                \* the member function called last
  ret,               \* what that call returned
  before,            \* value of the board when the last trivial move was called
  performed,         \* history: callback returns plus copies made by assign_copy
  calls              \* the trivial-move functions the test at hand calls

vars ==
  <<board, entry, cb, ndebug, pc, frontier, assignment_count, op, ret,
    before, performed, calls>>

-----------------------------------------------------------------------------
(* Characters *)

CharZero == 48
Underscore == 95

charset == {CharZero + d : d \in 1..9} \cup {Underscore}

Digits == {CharZero + d : d \in 1..9}

\* a board written down as digits, 0 standing for '_' (what operator>> reads)
FromDigits(t) == [i \in 1..81 |-> IF t[i] = 0 THEN Underscore ELSE CharZero + t[i]]

mdview(b, row, col) == b[row * 9 + col + 1]

Rows == 0..8

-----------------------------------------------------------------------------
(* section_table.hpp *)

section_table ==
  [s \in 1..9 |->
    [i \in 1..9 |-> <<3 * ((s - 1) \div 3) + ((i - 1) \div 3),
                      3 * ((s - 1) % 3) + ((i - 1) % 3)>>]]

\* the immediately invoked lambda that finds the subtable containing idxs
section_of ==
  [row \in Rows |-> [col \in Rows |->
     CHOOSE s \in 1..9 :
       /\ \E i \in 1..9 : section_table[s][i] = <<row, col>>
       /\ \A t \in 1..(s - 1) : \A i \in 1..9 : section_table[t][i] # <<row, col>>]]

section_subtable(idxs) == section_table[section_of[idxs.row][idxs.col]]

RowCells(b, row) == [i \in 1..9 |-> mdview(b, row, i - 1)]
ColCells(b, col) == [i \in 1..9 |-> mdview(b, i - 1, col)]
SectionCells(b, section) ==
  [i \in 1..9 |-> mdview(b, section[i][1], section[i][2])]

-----------------------------------------------------------------------------
(* checking.cpp *)

is_populated(b) == \A i \in 1..81 : b[i] # Underscore

raw_idx(cell) == (cell - CharZero) - 1

\* a handler whose table is never reset between the regions of one call:
\* it forgets the bit set before the walk
check_iteration_unseeded(cells, check_table) ==
  \A i \in 1..9 :
    \/ cells[i] = Underscore
    \/ \A j \in 1..(i - 1) : cells[j] # cells[i]

\* check_iteration_handler applied to the cells of one region in order,
\* starting from check_table; TRUE iff no call returned false.  The call for
\* cell i returns false iff its bit is already set: set at the start, or set
\* by an earlier populated cell of the region.
check_iteration(cells, check_table) ==
  \A i \in 1..9 :
    \/ cells[i] = Underscore
    \/ /\ raw_idx(cells[i]) \notin check_table
       /\ \A j \in 1..(i - 1) : cells[j] # cells[i]

is_legal_state(b) ==
  IF ~ (\A row \in Rows : check_iteration(RowCells(b, row), {}))
    THEN FALSE
    ELSE IF is_populated(b)
      THEN TRUE
      ELSE /\ \A col \in Rows : check_iteration(ColCells(b, col), {})
           /\ \A s \in 1..9 : check_iteration(SectionCells(b, section_table[s]), {})

is_solved(b) == is_populated(b) /\ is_legal_state(b)

is_valid(b) == is_legal_state(b)

\* is_legal_assignment without the walk over the section
is_legal_assignment_no_section(b, idxs, value) ==
  IF mdview(b, idxs.row, idxs.col) # Underscore
    THEN FALSE
    ELSE LET idx == raw_idx(value)
         IN /\ check_iteration(ColCells(b, idxs.col), {idx})
            /\ check_iteration(RowCells(b, idxs.row), {idx})

is_legal_assignment(b, idxs, value) ==
  IF mdview(b, idxs.row, idxs.col) # Underscore
    THEN FALSE
    ELSE LET idx == raw_idx(value)
         IN /\ check_iteration(ColCells(b, idxs.col), {idx})
            /\ check_iteration(RowCells(b, idxs.row), {idx})
            /\ check_iteration(SectionCells(b, section_subtable(idxs)), {idx})

\* bits a region's populated cells reset in a domain
RegionBits(cells) == {raw_idx(cells[i]) : i \in {j \in 1..9 : cells[j] # Underscore}}

\* query_domains without the reduction by column
query_domains_no_column(b) ==
  [k \in 1..81 |->
    LET row == (k - 1) \div 9
        col == (k - 1) % 9
        value == mdview(b, row, col)
        initial == IF value = Underscore THEN 0..8 ELSE {}
        by_row == IF value # Underscore THEN initial
                  ELSE initial \ RegionBits(RowCells(b, row))
        by_section ==
          by_row \ RegionBits(SectionCells(b, section_subtable([row |-> row, col |-> col])))
    IN [idxs |-> [row |-> row, col |-> col],
        legal_assignments |-> by_section,
        value |-> value]]

\* std::array<variable_domain, 81>; legal_assignments is the set of set bits
query_domains(b) ==
  [k \in 1..81 |->
    LET row == (k - 1) \div 9
        col == (k - 1) % 9
        value == mdview(b, row, col)
        initial == IF value = Underscore THEN 0..8 ELSE {}
        by_row == IF value # Underscore THEN initial
                  ELSE initial \ RegionBits(RowCells(b, row))
        by_col == IF value # Underscore THEN by_row
                  ELSE by_row \ RegionBits(ColCells(b, col))
        by_section ==
          by_col \ RegionBits(SectionCells(b, section_subtable([row |-> row, col |-> col])))
    IN [idxs |-> [row |-> row, col |-> col],
        legal_assignments |-> by_section,
        value |-> value]]

\* is_possible that does not skip the populated cells
is_possible_no_skip(b) ==
  LET domains == query_domains(b)
  IN \A k \in 1..81 : domains[k].legal_assignments # {}

is_possible(b) ==
  LET domains == query_domains(b)
  IN \A k \in 1..81 :
       \/ domains[k].value # Underscore
       \/ domains[k].legal_assignments # {}

has_legal_assignments(b) == is_possible(b)

-----------------------------------------------------------------------------
(* Boards of the test suite *)

Canonical == FromDigits(<<
  1, 9, 8, 5, 2, 6, 3, 4, 7,
  7, 2, 5, 3, 4, 1, 6, 9, 8,
  3, 4, 6, 9, 7, 8, 2, 1, 5,
  9, 8, 1, 2, 5, 7, 4, 6, 3,
  5, 6, 4, 1, 3, 9, 8, 7, 2,
  2, 3, 7, 6, 8, 4, 1, 5, 9,
  4, 7, 3, 8, 1, 5, 9, 2, 6,
  8, 1, 9, 7, 6, 2, 5, 3, 4,
  6, 5, 2, 4, 9, 3, 7, 8, 1>>)

LegalPartial == FromDigits(<<
  0, 9, 0, 0, 0, 6, 0, 4, 0,
  0, 0, 5, 3, 0, 0, 0, 0, 8,
  0, 0, 0, 0, 7, 0, 2, 0, 0,
  0, 0, 1, 0, 5, 0, 0, 0, 3,
  0, 6, 0, 0, 0, 9, 0, 7, 0,
  2, 0, 0, 0, 8, 4, 1, 0, 0,
  0, 0, 3, 0, 1, 0, 0, 0, 0,
  8, 0, 0, 0, 0, 2, 5, 0, 0,
  0, 5, 0, 4, 0, 0, 0, 8, 0>>)

Hard == FromDigits(<<
  7, 0, 0, 0, 0, 0, 0, 0, 0,
  6, 0, 0, 4, 1, 0, 2, 5, 0,
  0, 1, 3, 0, 9, 5, 0, 0, 0,
  8, 6, 0, 0, 0, 0, 0, 0, 0,
  3, 0, 1, 0, 0, 0, 4, 0, 5,
  0, 0, 0, 0, 0, 0, 0, 8, 6,
  0, 0, 0, 8, 4, 0, 5, 3, 0,
  0, 4, 2, 0, 3, 6, 0, 0, 7,
  0, 0, 0, 0, 0, 0, 0, 0, 9>>)

Impossible == FromDigits(<<
  7, 3, 2, 1, 8, 0, 4, 9, 6,
  5, 6, 0, 2, 9, 4, 7, 1, 3,
  8, 1, 4, 3, 6, 0, 5, 2, 0,
  3, 7, 5, 9, 1, 2, 8, 0, 4,
  4, 2, 6, 8, 7, 5, 1, 3, 9,
  1, 9, 8, 4, 3, 0, 6, 5, 7,
  6, 5, 3, 0, 2, 7, 9, 4, 1,
  9, 4, 1, 6, 5, 3, 0, 7, 2,
  2, 8, 0, 0, 4, 0, 3, 6, 5>>)


\* every row a permutation of 1..9, every column holding one digit nine times
\* except for the first row, which is shifted by one
RowsOnly == FromDigits(<<
  2, 3, 4, 5, 6, 7, 8, 9, 1,
  1, 2, 3, 4, 5, 6, 7, 8, 9,
  1, 2, 3, 4, 5, 6, 7, 8, 9,
  1, 2, 3, 4, 5, 6, 7, 8, 9,
  1, 2, 3, 4, 5, 6, 7, 8, 9,
  1, 2, 3, 4, 5, 6, 7, 8, 9,
  1, 2, 3, 4, 5, 6, 7, 8, 9,
  1, 2, 3, 4, 5, 6, 7, 8, 9,
  1, 2, 3, 4, 5, 6, 7, 8, 9>>)

\* the canonical solution with rows 2 and 3 exchanged: rows and columns stay
\* permutations, the sections of the first two bands do not
BandSwapped ==
  [i \in 1..81 |->
     IF i \in 19..27 THEN Canonical[i + 9]
     ELSE IF i \in 28..36 THEN Canonical[i - 9]
     ELSE Canonical[i]]

Empty == [i \in 1..81 |-> Underscore]

\* the canonical solution with rows and columns exchanged: a second board
\* that is solved
Transposed == [i \in 1..81 |-> Canonical[((i - 1) % 9) * 9 + ((i - 1) \div 9) + 1]]

-----------------------------------------------------------------------------
(* solve.cpp: the compile-time table of every possible assignment *)

all_possible_assignments ==
  [k \in 1..729 |->
    [idxs |-> [row |-> (k - 1) \div 81, col |-> ((k - 1) \div 9) % 9],
     value |-> CharZero + 1 + ((k - 1) % 9)]]

-----------------------------------------------------------------------------
(* sudoku.hpp: assignment *)

\* a local variable: Op applied to the value of v, which is computed once
With(v, Op(_)) == CHOOSE r \in {Op(x) : x \in {v}} : TRUE

\* try_assign on a board: the write happens only if the assignment is legal
try_assign(b, idxs, value) ==
  IF is_legal_assignment(b, idxs, value)
    THEN [b EXCEPT ![idxs.row * 9 + idxs.col + 1] = value]
    ELSE b

\* a copy with the digit after assignment.value written without asking
\* is_legal_assignment
assign_copy_next_digit(b, assignment) ==
  [b EXCEPT ![assignment.idxs.row * 9 + assignment.idxs.col + 1] =
     CharZero + 1 + ((raw_idx(assignment.value) + 1) % 9)]

\* the copy assign_copy returns
assign_copy(b, assignment) == try_assign(b, assignment.idxs, assignment.value)

-----------------------------------------------------------------------------
(* trivial_moves.cpp *)

\* The three moves walk the regions in order with one population_table, reset
\* after each region that is not trivial.  unit is the sequence of <<row, col>>
\* of one region.  population_table is kept as the set of indices set true.
population_table(b, unit) ==
  {raw_idx(mdview(b, unit[i][1], unit[i][2])) :
     i \in {j \in 1..9 : mdview(b, unit[j][1], unit[j][2]) # Underscore}}

\* a count of false entries of 1 or 2
unit_is_trivial_two_left(b, unit) ==
  Cardinality((0..8) \ population_table(b, unit)) \in {1, 2}

\* std::ranges::count(population_table, false) == 1
unit_is_trivial(b, unit) == Cardinality((0..8) \ population_table(b, unit)) = 1

\* the index of the false entry turned into a character without the + 1
trivial_assignment_value_unshifted(b, unit) ==
  LET free == (0..8) \ population_table(b, unit)
  IN CharZero + (CHOOSE x \in free : \A y \in free : x <= y)

\* std::ranges::find(population_table, false) turned back into a character
trivial_assignment_value(b, unit) ==
  LET free == (0..8) \ population_table(b, unit)
  IN CharZero + 1 + (CHOOSE x \in free : \A y \in free : x <= y)

\* where the inner loop leaves the index of the empty cell: the last empty
\* cell of the region, or the value the index was initialised with
trivial_move_idx(b, unit, initial) ==
  LET empties == {i \in 1..9 : mdview(b, unit[i][1], unit[i][2]) = Underscore}
  IN IF empties = {} THEN initial
     ELSE unit[CHOOSE i \in empties : \A j \in empties : j <= i]

\* One of the three moves over its nine regions.  units[u] is region u and
\* initials[u] the cell its index variables start at.  status is "moved" when
\* an assignment was made, "none" when the function returned false, and
\* "abort" when an assert failed (debug build only).
apply_trivial_unit_move(b, units, initials, debug) ==
  IF debug /\ ~ is_valid(b)
    THEN [sudoku |-> b, status |-> "abort"]
    ELSE
      LET hits == {u \in 1..9 : unit_is_trivial(b, units[u])}
      IN IF hits = {}
           THEN [sudoku |-> b, status |-> "none"]
           ELSE
             LET u == CHOOSE x \in hits : \A y \in hits : x <= y
                 target == trivial_move_idx(b, units[u], initials[u])
                 value == trivial_assignment_value(b, units[u])
                 written == [b EXCEPT ![target[1] * 9 + target[2] + 1] = value]
             IN IF debug /\ mdview(b, target[1], target[2]) # Underscore
                  THEN [sudoku |-> b, status |-> "abort"]
                  ELSE IF debug /\ ~ is_valid(written)
                    THEN [sudoku |-> written, status |-> "abort"]
                    ELSE [sudoku |-> written, status |-> "moved"]

row_units == [u \in 1..9 |-> [i \in 1..9 |-> <<u - 1, i - 1>>]]
column_units == [u \in 1..9 |-> [i \in 1..9 |-> <<i - 1, u - 1>>]]

apply_trivial_row_move(b, debug) ==
  apply_trivial_unit_move(b, row_units, [u \in 1..9 |-> <<u - 1, 0>>], debug)

apply_trivial_column_move(b, debug) ==
  apply_trivial_unit_move(b, column_units, [u \in 1..9 |-> <<0, u - 1>>], debug)

apply_trivial_section_move(b, debug) ==
  apply_trivial_unit_move(b, section_table, [u \in 1..9 |-> <<0, 0>>], debug)

\* apply_trivial_move that tries the rows only
apply_trivial_move_rows_only(b, debug) == apply_trivial_row_move(b, debug)

apply_trivial_move(b, debug) ==
  LET by_row == apply_trivial_row_move(b, debug)
  IN IF by_row.status # "none" THEN by_row
     ELSE LET by_column == apply_trivial_column_move(b, debug)
          IN IF by_column.status # "none" THEN by_column
             ELSE apply_trivial_section_move(b, debug)

-----------------------------------------------------------------------------
(* solve.cpp: the optimization callbacks *)

\* A callback's outcome: the board it leaves, the count it returns, and
\* status "returned", "abort" (a failed assert) or "hang" (it never returns).
\* a callback that changes nothing and reports one assignment
null_optimization_counting(b) == [sudoku |-> b, count |-> 1, status |-> "returned"]

null_optimization(b) == [sudoku |-> b, count |-> 0, status |-> "returned"]

\* while ( sudoku.apply_trivial_move() ) ++trivial_assignment_count;
\* seen holds the boards the loop has already left behind: the loop is
\* deterministic, so reaching one of them again means it runs forever.
RECURSIVE trivial_move_loop(_, _, _, _)
trivial_move_loop(b, trivial_assignment_count, seen, debug) ==
  With(apply_trivial_move(b, debug), LAMBDA move :
    IF move.status = "abort"
      THEN [sudoku |-> move.sudoku, count |-> trivial_assignment_count,
            status |-> "abort"]
      ELSE IF move.status = "none"
        THEN [sudoku |-> b, count |-> trivial_assignment_count,
              status |-> "returned"]
        ELSE IF move.sudoku \in seen \cup {b}
          THEN [sudoku |-> move.sudoku, count |-> trivial_assignment_count,
                status |-> "hang"]
          ELSE trivial_move_loop(move.sudoku, trivial_assignment_count + 1,
                                 seen \cup {b}, debug))

trivial_move_optimization(b, debug) == trivial_move_loop(b, 0, {}, debug)

optimization_callback(callback, b, debug) ==
  IF callback = "trivial" THEN trivial_move_optimization(b, debug)
  ELSE null_optimization(b)

-----------------------------------------------------------------------------
(* solve.cpp: Sudoku::solve *)

max_depth == 50

Reverse(s) == [i \in 1..Len(s) |-> s[Len(s) + 1 - i]]

\* the counts of outcomes[lo..hi] added up
RECURSIVE SumCounts(_, _, _)
SumCounts(outcomes, lo, hi) ==
  IF lo > hi THEN 0
  ELSE IF lo = hi THEN outcomes[lo].count
  ELSE SumCounts(outcomes, lo, (lo + hi) \div 2)
         + SumCounts(outcomes, ((lo + hi) \div 2) + 1, hi)

\* the first filter and the transform of generate_states: one copy of the
\* node's board per legal assignment, with that assignment made
candidate_states(search_node) ==
  With(SelectSeq(all_possible_assignments,
                 LAMBDA a : is_legal_assignment(search_node.sudoku, a.idxs, a.value)),
       LAMBDA legal :
         [i \in 1..Len(legal) |->
            [sudoku |-> assign_copy(search_node.sudoku, legal[i]),
             depth |-> search_node.depth + 1]] \o <<>>)

\* the two filters that follow the transform, before std::views::reverse
filtered_states(candidates) ==
  SelectSeq(SelectSeq(candidates, LAMBDA n : is_valid(n.sudoku)),
            LAMBDA n : is_solved(n.sudoku) \/ has_legal_assignments(n.sudoku))

\* std::ranges::for_each(retval, ...): the callback's outcome on each node
callback_outcomes(retval, callback, debug) ==
  [i \in 1..Len(retval) |->
     optimization_callback(callback, retval[i].sudoku, debug)] \o <<>>

\* The lambda generate_states applied to search_node.  states is retval,
\* count what the call adds to assignment_count, status as for a callback:
\* the callbacks run over retval front to back and the first one that does
\* not return ends the program there.  performed is what the callbacks
\* returned plus the number of copies assign_copy made.
generate_states(search_node, callback, debug) ==
  With(candidate_states(search_node), LAMBDA candidates :
  With(Reverse(filtered_states(candidates)) \o <<>>, LAMBDA retval :
  With(callback_outcomes(retval, callback, debug), LAMBDA outcomes :
  With({i \in 1..Len(retval) : outcomes[i].status # "returned"}, LAMBDA stuck :
    IF stuck = {}
      THEN [states |-> [i \in 1..Len(retval) |->
                          [sudoku |-> outcomes[i].sudoku, depth |-> retval[i].depth]],
            count |-> SumCounts(outcomes, 1, Len(retval)) + Len(retval),
            performed |-> SumCounts(outcomes, 1, Len(retval)) + Len(candidates),
            status |-> "returned"]
      ELSE With(CHOOSE i \in stuck : \A j \in stuck : i <= j, LAMBDA first :
             [states |-> [i \in 1..Len(retval) |->
                            [sudoku |-> outcomes[i].sudoku, depth |-> retval[i].depth]],
              count |-> SumCounts(outcomes, 1, first - 1),
              performed |-> SumCounts(outcomes, 1, first - 1) + Len(candidates),
              status |-> outcomes[first].status])))))

\* The program between two evaluations of the loop condition is described by
\* a record: pc is "loop" at the loop condition, "final" at the check after
\* the loop, "returned" once solve has returned, "exit" after
\* std::exit(EXIT_FAILURE), "abort" after a failed assert, "hang" inside a
\* callback that never returns, and "top_of_empty" where top() is called on
\* an empty stack.

\* solve up to the construction of the frontier
solve_entry(b, callback, debug) ==
  With(optimization_callback(callback, b, debug), LAMBDA first :
    IF first.status # "returned"
      THEN [pc |-> first.status, board |-> first.sudoku, frontier |-> <<>>,
            assignment_count |-> 0, performed |-> 0]
      ELSE
        With(generate_states([sudoku |-> first.sudoku, depth |-> 0], callback, debug),
             LAMBDA new_states :
               [pc |-> IF new_states.status # "returned"
                         THEN new_states.status ELSE "loop",
                board |-> first.sudoku,
                frontier |-> IF new_states.status # "returned"
                               THEN <<>> ELSE new_states.states,
                assignment_count |-> first.count + new_states.count,
                performed |-> first.count + new_states.performed]))

\* the frontier after the loop of deep pops: everything above the topmost
\* node of depth < max_depth is popped
deep_popped(fr) ==
  With({i \in 1..Len(fr) : fr[i].depth < max_depth}, LAMBDA shallow :
    IF shallow = {} THEN <<>>
    ELSE SubSeq(fr, 1, CHOOSE i \in shallow : \A j \in shallow : j <= i))

\* the loop body from generate_states(frontier.top()) on, popped being the
\* frontier the deep pops left
expand_top(b, popped, count, done, callback, debug) ==
  With(generate_states(popped[Len(popped)], callback, debug), LAMBDA new_states :
    [board |-> b,
     assignment_count |-> count + new_states.count,
     performed |-> done + new_states.performed]
    @@
    IF new_states.status # "returned"
      THEN [pc |-> new_states.status, frontier |-> popped]
    ELSE IF new_states.states # <<>>
      THEN [pc |-> "loop",
            frontier |-> SubSeq(popped, 1, Len(popped) - 1) \o new_states.states]
    \* no child: careful_pop twice, then top(), then careful_pop
    ELSE IF Len(popped) = 1
      THEN [pc |-> "exit", frontier |-> <<>>]
    ELSE IF Len(popped) = 2
      THEN [pc |-> "top_of_empty", frontier |-> <<>>]
    ELSE [pc |-> "loop", frontier |-> SubSeq(popped, 1, Len(popped) - 3)])

\* one pass through the body of while ( ! frontier.empty() )
solve_iteration(b, fr, count, done, callback, debug) ==
  IF fr = <<>>
    THEN [pc |-> "final", board |-> b, frontier |-> fr,
          assignment_count |-> count, performed |-> done]
  ELSE IF is_solved(fr[Len(fr)].sudoku)
    THEN [pc |-> "final", board |-> fr[Len(fr)].sudoku, frontier |-> fr,
          assignment_count |-> count, performed |-> done]
  ELSE
    With(deep_popped(fr), LAMBDA popped :
      IF popped = <<>>
        THEN [pc |-> "top_of_empty", board |-> b, frontier |-> popped,
              assignment_count |-> count, performed |-> done]
        ELSE expand_top(b, popped, count, done, callback, debug))

\* what a call of top() on an empty stack can turn into: the read is outside
\* the deque's storage, so the program is killed there or goes on to the
\* careful_pop that follows, which finds the stack empty and exits
TopOfEmptyOutcomes == {"crash", "exit"}

-----------------------------------------------------------------------------
(* Reference notions the statements are measured against *)

CellRow(i) == (i - 1) \div 9
CellCol(i) == (i - 1) % 9
CellBox(i) == 3 * (CellRow(i) \div 3) + (CellCol(i) \div 3)

SameUnit(i, j) ==
  \/ CellRow(i) = CellRow(j)
  \/ CellCol(i) = CellCol(j)
  \/ CellBox(i) = CellBox(j)

\* for each cell, the other cells sharing a row, a column or a section with it
Peers == [i \in 1..81 |-> {j \in 1..81 : j # i /\ SameUnit(i, j)}]

\* no row, column or section holds the same digit twice
NoDuplicate(b) ==
  \A i \in 1..81 : b[i] = Underscore \/ \A j \in Peers[i] : b[j] # b[i]

\* no empty cell, and every row, column and section holds each digit once
Complete(b) == is_populated(b) /\ NoDuplicate(b)

\* digit d appears in the row, the column or the section of cell i
Appears(b, i, d) == \E j \in Peers[i] : b[j] = d

\* the digits that appear nowhere in the row, column and section of cell i
Domain(b, i) == {d \in Digits : ~ Appears(b, i, d)}

RowSet == [r \in 0..8 |-> {i \in 1..81 : CellRow(i) = r}]
ColSet == [c \in 0..8 |-> {i \in 1..81 : CellCol(i) = c}]
BoxSet == [x \in 0..8 |-> {i \in 1..81 : CellBox(i) = x}]

\* the cells of the set S hold some digit twice
DuplicateIn(b, S) ==
  \E i \in S : b[i] # Underscore /\ \E j \in S : j > i /\ b[j] = b[i]

\* for each cell: no row, column or section that contains it holds a digit twice
UnitsClean(b) ==
  LET row_clean == [r \in 0..8 |-> ~ DuplicateIn(b, RowSet[r])]
      col_clean == [c \in 0..8 |-> ~ DuplicateIn(b, ColSet[c])]
      box_clean == [x \in 0..8 |-> ~ DuplicateIn(b, BoxSet[x])]
  IN [i \in 1..81 |->
        row_clean[CellRow(i)] /\ col_clean[CellCol(i)] /\ box_clean[CellBox(i)]]

CellOf(idxs) == idxs.row * 9 + idxs.col + 1

\* the 27 rows, columns and sections as sets of cells
Units ==
  {RowSet[r] : r \in 0..8} \cup {ColSet[c] : c \in 0..8} \cup {BoxSet[x] : x \in 0..8}

\* the digits the cells of S hold
DigitsIn(b, S) == {b[i] : i \in S} \ {Underscore}

\* some empty cell has exactly one digit left that appears nowhere in its
\* row, column and section
HasForcedCell(b) ==
  \E i \in 1..81 : b[i] = Underscore /\ Cardinality(Domain(b, i)) = 1

\* b with every empty cell that has one digit left filled with that digit
ForcedFill(b) ==
  [i \in 1..81 |->
     IF b[i] = Underscore /\ Cardinality(Domain(b, i)) = 1
       THEN CHOOSE d \in Domain(b, i) : TRUE
       ELSE b[i]] \o <<>>

\* ForcedFill repeated until nothing changes
RECURSIVE ForcedClosure(_)
ForcedClosure(b) ==
  With(ForcedFill(b), LAMBDA filled :
    IF filled = b THEN b ELSE ForcedClosure(filled))

\* the units in which cell i is the only empty cell
LonelyIn(b, i) == {S \in Units : i \in S /\ \A j \in S \ {i} : b[j] # Underscore}

\* b with every cell that is the only empty cell of a row, column or section
\* filled with a digit that unit lacks
UnitFill(b) ==
  [i \in 1..81 |->
     IF b[i] = Underscore /\ LonelyIn(b, i) # {}
       THEN CHOOSE d \in Digits : \E S \in LonelyIn(b, i) : d \notin DigitsIn(b, S)
       ELSE b[i]] \o <<>>

\* UnitFill repeated until nothing changes
RECURSIVE UnitClosure(_)
UnitClosure(b) ==
  With(UnitFill(b), LAMBDA filled :
    IF filled = b THEN b ELSE UnitClosure(filled))

-----------------------------------------------------------------------------
(* Queries: a test takes one of the boards of the suite, overwrites at most *)
(* one cell through mdview() (run_is_valid_check, the populated-board test) *)
(* and calls a const member function.                                      *)

MaxProbe == 9

\* the cells a test overwrites: the main diagonal first, then the diagonals
\* below it (a stride of 10 visits each of the 81 cells once)
ProbeCell(n) == 1 + (((n - 1) * 10) % 81)

QueryBoards ==
  {Canonical, LegalPartial, Hard, Impossible, RowsOnly, BandSwapped, Empty}

InitQuery ==
  /\ board \in QueryBoards
  /\ entry = board
  /\ cb = "null"
  /\ ndebug = TRUE
  /\ pc = "fresh"
  /\ frontier = <<>>
  /\ assignment_count = 0
  /\ op = "none"
  /\ ret = FALSE
  /\ before = board
  /\ performed = 0
  /\ calls = {}

\* board.mdview()(row, col) = cell_to
SetCell(n, cell_to) ==
  /\ pc = "fresh"
  /\ op = "none"
  /\ board[ProbeCell(n)] # cell_to
  /\ board' = [board EXCEPT ![ProbeCell(n)] = cell_to]
  /\ entry' = board'
  /\ pc' = "mutated"
  /\ UNCHANGED <<cb, ndebug, frontier, assignment_count, op, ret, before,
               performed, calls>>

Call(name, value) ==
  /\ pc \in {"fresh", "mutated"}
  /\ op = "none"
  /\ op' = name
  /\ ret' = value
  /\ entry' = board
  /\ UNCHANGED <<board, cb, ndebug, pc, frontier, assignment_count, before,
               performed, calls>>

CallIsValid == Call("is_valid", is_valid(board))

CallIsSolved == Call("is_solved", is_solved(board))

\* is_legal_assignment over every entry of all_possible_assignments, as the
\* first filter of generate_states applies it
CallIsLegalAssignment ==
  Call("is_legal_assignment",
       [k \in 1..729 |->
          is_legal_assignment(board, all_possible_assignments[k].idxs,
                              all_possible_assignments[k].value)])

CallQueryDomains == Call("query_domains", query_domains(board))

CallHasLegalAssignments == Call("has_legal_assignments", has_legal_assignments(board))

\* board.assign_copy({idxs, value}) at one of the probed cells, asserts
\* compiled out: ret holds what is_legal_assignment says of the assignment
\* and the copy returned
CallAssignCopy(n, value) ==
  LET assignment ==
        [idxs |-> [row |-> CellRow(ProbeCell(n)), col |-> CellCol(ProbeCell(n))],
         value |-> value]
  IN Call("assign_copy",
          [assignment |-> assignment,
           accepted |-> is_legal_assignment(board, assignment.idxs, value),
           copy |-> assign_copy(board, assignment)])

NextQuery ==
  \/ \E n \in 1..MaxProbe : \E cell_to \in charset : SetCell(n, cell_to)
  \/ \E n \in 1..MaxProbe : \E value \in Digits : CallAssignCopy(n, value)
  \/ CallIsValid
  \/ CallIsSolved
  \/ CallIsLegalAssignment
  \/ CallQueryDomains
  \/ CallHasLegalAssignments

SpecQuery == InitQuery /\ [][NextQuery]_vars

-----------------------------------------------------------------------------
(* Solving: main reads a board and calls solve on it with one of the two    *)
(* callbacks, in a build with or without assert.                            *)

\* a board without solution that has no duplicate: the 1 in the second row
\* leaves no digit for the four empty cells that fits row, column and section
UnsolvableFilled == FromDigits(<<
  1, 9, 8, 5, 2, 6, 3, 4, 7,
  7, 2, 5, 1, 4, 0, 6, 9, 8,
  3, 4, 6, 9, 7, 8, 2, 1, 5,
  9, 8, 1, 2, 0, 5, 4, 6, 3,
  5, 6, 4, 3, 0, 9, 8, 7, 2,
  2, 3, 7, 6, 8, 4, 1, 5, 9,
  4, 7, 3, 8, 1, 0, 9, 2, 6,
  8, 1, 9, 7, 6, 2, 5, 3, 4,
  6, 5, 2, 4, 9, 3, 7, 8, 1>>)

\* a board without solution that has no duplicate: the 2 that ends the
\* fourth row belongs at the end of the fifth
UnsolvableExit == FromDigits(<<
  1, 9, 8, 5, 2, 6, 3, 4, 7,
  7, 2, 5, 3, 4, 1, 6, 9, 8,
  3, 4, 6, 9, 7, 8, 2, 1, 5,
  9, 8, 1, 0, 5, 7, 4, 6, 2,
  5, 6, 4, 0, 3, 9, 8, 7, 0,
  2, 3, 7, 6, 8, 4, 1, 5, 9,
  4, 7, 3, 8, 1, 5, 9, 2, 6,
  8, 1, 9, 7, 6, 2, 5, 3, 4,
  6, 5, 2, 4, 9, 3, 7, 8, 1>>)

\* a board without solution that has no duplicate: the 1 in the seventh row
\* stands where the canonical solution has an 8
DeadEnd == FromDigits(<<
  1, 9, 8, 5, 0, 6, 3, 4, 7,
  7, 2, 5, 3, 4, 1, 6, 9, 8,
  3, 4, 6, 9, 7, 8, 2, 1, 5,
  9, 8, 1, 2, 5, 7, 4, 6, 3,
  0, 6, 4, 0, 3, 9, 0, 7, 2,
  2, 3, 7, 6, 0, 0, 1, 5, 9,
  4, 7, 3, 1, 0, 5, 9, 2, 6,
  8, 1, 9, 7, 6, 2, 5, 3, 4,
  6, 5, 2, 4, 9, 3, 7, 8, 1>>)

\* the canonical solution with six cells of its first band emptied
SixBlanks == FromDigits(<<
  1, 0, 8, 5, 2, 6, 3, 0, 7,
  7, 2, 5, 0, 4, 1, 6, 0, 8,
  3, 0, 6, 0, 7, 8, 2, 1, 5,
  9, 8, 1, 2, 5, 7, 4, 6, 3,
  5, 6, 4, 1, 3, 9, 8, 7, 2,
  2, 3, 7, 6, 8, 4, 1, 5, 9,
  4, 7, 3, 8, 1, 5, 9, 2, 6,
  8, 1, 9, 7, 6, 2, 5, 3, 4,
  6, 5, 2, 4, 9, 3, 7, 8, 1>>)

\* the canonical solution with four cells emptied and the '2' at (0,4)
\* replaced by '6': no digit twice, no solution
AlteredGiven == FromDigits(<<
  1, 9, 8, 5, 6, 0, 0, 4, 7,
  7, 2, 5, 3, 4, 1, 6, 9, 8,
  3, 4, 6, 9, 7, 8, 2, 1, 5,
  9, 8, 1, 2, 5, 7, 4, 6, 3,
  5, 6, 4, 1, 3, 9, 8, 7, 2,
  2, 3, 7, 6, 0, 4, 1, 5, 9,
  4, 7, 3, 8, 1, 5, 9, 2, 6,
  8, 1, 9, 7, 0, 2, 5, 3, 4,
  6, 5, 2, 4, 9, 3, 7, 8, 1>>)

\* the canonical solution with seventeen cells emptied
SeventeenBlanks == FromDigits(<<
  1, 9, 0, 0, 0, 6, 3, 0, 7,
  7, 0, 0, 0, 4, 1, 6, 9, 8,
  3, 4, 6, 9, 7, 8, 2, 0, 5,
  9, 8, 1, 0, 5, 0, 4, 6, 3,
  5, 6, 4, 1, 3, 9, 8, 7, 2,
  2, 3, 0, 6, 8, 4, 1, 5, 0,
  4, 0, 3, 8, 0, 5, 9, 2, 6,
  8, 1, 9, 7, 6, 2, 5, 3, 4,
  6, 5, 0, 4, 9, 0, 7, 0, 1>>)

MaxBlank == 6

\* the canonical solution with the first n cells of ProbeCell emptied
Blanked(n) ==
  [i \in 1..81 |->
     IF \E k \in 1..n : ProbeCell(k) = i THEN Underscore ELSE Canonical[i]]

SolveBoards ==
  {UnsolvableFilled, UnsolvableExit, DeadEnd, SixBlanks, SeventeenBlanks,
   AlteredGiven, Impossible, Transposed, RowsOnly, BandSwapped}
    \cup {Blanked(n) : n \in 0..MaxBlank}

\* The search without propagation needs more than three thousand iterations
\* on SeventeenBlanks; that run is left out.
Init ==
  /\ board \in SolveBoards
  /\ entry = board
  /\ cb \in {"null", "trivial"}
  /\ board = SeventeenBlanks => cb = "trivial"
  /\ ndebug \in BOOLEAN
  /\ pc = "ready"
  /\ frontier = <<>>
  /\ assignment_count = 0
  /\ op = "none"
  /\ ret = FALSE
  /\ before = board
  /\ performed = 0
  /\ calls = {}

\* the call of solve up to the first evaluation of the loop condition
Enter ==
  /\ pc = "ready"
  /\ \E s \in {solve_entry(board, cb, ~ ndebug)} :
       /\ pc' = s.pc
       /\ board' = s.board
       /\ frontier' = s.frontier
       /\ assignment_count' = s.assignment_count
       /\ performed' = s.performed
  /\ op' = "solve"
  /\ UNCHANGED <<entry, cb, ndebug, ret, before, calls>>

\* one evaluation of the loop condition and, if it holds, the loop body
Iterate ==
  /\ pc = "loop"
  /\ \E s \in {solve_iteration(board, frontier, assignment_count, performed, cb,
                                  ~ ndebug)} :
       /\ \E outcome \in TopOfEmptyOutcomes :
            pc' = IF s.pc = "top_of_empty" THEN outcome ELSE s.pc
       /\ board' = s.board
       /\ frontier' = s.frontier
       /\ assignment_count' = s.assignment_count
       /\ performed' = s.performed
  /\ UNCHANGED <<entry, cb, ndebug, op, ret, before, calls>>

\* the check after the loop: return assignment_count or exit
Finish ==
  /\ pc = "final"
  /\ pc' = IF is_solved(board) THEN "returned" ELSE "exit"
  /\ UNCHANGED <<board, entry, cb, ndebug, frontier, assignment_count, op, ret,
               before, performed, calls>>

Next == Enter \/ Iterate \/ Finish

Spec == Init /\ [][Next]_vars

-----------------------------------------------------------------------------
(* Trivial moves: a test takes a board and calls apply_trivial_move, one of *)
(* its three variants or trivial_move_optimization on it, again and again,  *)
(* in a build with or without assert.                                       *)

\* tests/src/sudoku/trivial_moves.cpp: the boards of the four tests
trivial_row_moves == FromDigits(<<
  0, 9, 8, 5, 0, 6, 3, 4, 7,
  7, 0, 5, 3, 4, 1, 6, 9, 8,
  3, 4, 0, 9, 7, 8, 2, 1, 5,
  9, 8, 1, 2, 5, 7, 4, 6, 3,
  5, 6, 4, 1, 0, 9, 8, 7, 2,
  2, 3, 7, 6, 8, 0, 1, 5, 9,
  4, 7, 3, 8, 1, 5, 0, 2, 6,
  8, 1, 9, 7, 6, 2, 5, 0, 4,
  6, 5, 2, 4, 9, 3, 7, 8, 0>>)

trivial_column_moves == FromDigits(<<
  0, 9, 8, 5, 2, 6, 3, 4, 7,
  7, 2, 5, 3, 0, 1, 6, 9, 8,
  3, 4, 0, 9, 7, 8, 0, 0, 5,
  9, 8, 1, 2, 5, 7, 4, 6, 0,
  5, 6, 4, 1, 3, 9, 8, 7, 2,
  2, 0, 7, 6, 8, 0, 1, 0, 9,
  4, 7, 3, 8, 1, 5, 9, 2, 6,
  8, 1, 9, 7, 6, 2, 5, 3, 4,
  6, 5, 2, 4, 9, 3, 7, 8, 1>>)

trivial_section_moves == FromDigits(<<
  1, 9, 8, 5, 0, 6, 0, 4, 7,
  7, 0, 5, 3, 4, 1, 6, 9, 8,
  3, 4, 6, 9, 7, 8, 2, 1, 5,
  9, 8, 1, 2, 0, 7, 4, 6, 3,
  5, 6, 4, 1, 3, 9, 8, 7, 2,
  0, 3, 7, 6, 8, 4, 1, 5, 9,
  4, 0, 3, 8, 0, 5, 9, 2, 6,
  8, 1, 9, 7, 6, 2, 0, 0, 4,
  6, 5, 2, 4, 9, 3, 7, 8, 1>>)

trivially_solvable == FromDigits(<<
  1, 9, 0, 5, 2, 6, 0, 0, 0,
  7, 0, 5, 3, 0, 1, 6, 9, 8,
  3, 0, 6, 0, 7, 0, 2, 1, 5,
  9, 8, 0, 2, 5, 7, 0, 6, 3,
  5, 0, 4, 1, 0, 9, 8, 0, 2,
  2, 3, 7, 0, 8, 4, 1, 5, 9,
  4, 7, 0, 8, 1, 0, 9, 0, 6,
  0, 1, 9, 7, 6, 2, 0, 3, 4,
  6, 5, 2, 4, 0, 3, 7, 8, 1>>)

\* the canonical solution with the corners of a rectangle emptied: each of
\* the four cells has one digit left, and every row, column and section that
\* holds one of them holds two
Rectangle ==
  [i \in 1..81 |-> IF i \in {1, 4, 10, 13} THEN Underscore ELSE Canonical[i]]

\* the canonical solution with the first two cells of the first row
\* exchanged: every row stays a permutation, the first two columns do not
ColumnSwapped ==
  [i \in 1..81 |->
     IF i = 1 THEN Canonical[2] ELSE IF i = 2 THEN Canonical[1] ELSE Canonical[i]]

TrivialBoards ==
  {trivial_row_moves, trivial_column_moves, trivial_section_moves,
   trivially_solvable, Rectangle, ColumnSwapped, UnsolvableFilled, Impossible,
   LegalPartial, Canonical}

\* calls that returned true are counted up to MaxMoves
MaxMoves == 24

\* A test calls one function until it returns false, as the tests of
\* tests/src/sudoku/trivial_moves.cpp and trivial_move_optimization do, or
\* the three variants in any order.
TrivialVariants ==
  {"apply_trivial_row_move", "apply_trivial_column_move",
   "apply_trivial_section_move"}

TrivialTests ==
  {{name} : name \in TrivialVariants
                      \cup {"apply_trivial_move", "trivial_move_optimization"}}
    \cup {TrivialVariants}

InitTrivial ==
  /\ board \in TrivialBoards
  /\ entry = board
  /\ cb = "trivial"
  /\ ndebug \in BOOLEAN
  /\ pc = "ready"
  /\ frontier = <<>>
  /\ assignment_count = 0
  /\ op = "none"
  /\ ret = FALSE
  /\ before = board
  /\ performed = 0
  /\ calls \in TrivialTests

\* one call of a function that returns bool; assignment_count counts the
\* calls that returned true
CallMove(name, move) ==
  /\ pc = "ready"
  /\ name \in calls
  /\ assignment_count < MaxMoves
  /\ board' = move.sudoku
  /\ pc' = IF move.status = "abort" THEN "abort" ELSE "ready"
  /\ ret' = (move.status = "moved")
  /\ assignment_count' = assignment_count + (IF move.status = "moved" THEN 1 ELSE 0)
  /\ op' = name
  /\ before' = board
  /\ UNCHANGED <<entry, cb, ndebug, frontier, performed, calls>>

CallApplyTrivialMove ==
  \E move \in {apply_trivial_move(board, ~ ndebug)} :
    CallMove("apply_trivial_move", move)

CallApplyTrivialRowMove ==
  \E move \in {apply_trivial_row_move(board, ~ ndebug)} :
    CallMove("apply_trivial_row_move", move)

CallApplyTrivialColumnMove ==
  \E move \in {apply_trivial_column_move(board, ~ ndebug)} :
    CallMove("apply_trivial_column_move", move)

CallApplyTrivialSectionMove ==
  \E move \in {apply_trivial_section_move(board, ~ ndebug)} :
    CallMove("apply_trivial_section_move", move)

\* one call of trivial_move_optimization, which returns a count, fails an
\* assert or never returns
CallTrivialMoveOptimization ==
  /\ pc = "ready"
  /\ "trivial_move_optimization" \in calls
  /\ assignment_count < MaxMoves
  /\ \E done \in {trivial_move_optimization(board, ~ ndebug)} :
       /\ board' = done.sudoku
       /\ pc' = IF done.status = "returned" THEN "ready" ELSE done.status
       /\ ret' = done.count
       /\ assignment_count' = assignment_count + done.count
  /\ op' = "trivial_move_optimization"
  /\ before' = board
  /\ UNCHANGED <<entry, cb, ndebug, frontier, performed, calls>>

NextTrivial ==
  \/ CallApplyTrivialMove
  \/ CallApplyTrivialRowMove
  \/ CallApplyTrivialColumnMove
  \/ CallApplyTrivialSectionMove
  \/ CallTrivialMoveOptimization

SpecTrivial == InitTrivial /\ [][NextTrivial]_vars

-----------------------------------------------------------------------------
(* Statements about the checks *)

\* C5: on boards of digits and empty cells, is_valid returns true exactly
\* when no row, column or section holds the same digit twice.
C5_IsValidIffNoDuplicate ==
  op = "is_valid" => (ret <=> NoDuplicate(board))

\* C6: is_solved returns true exactly when the board has no empty cell and no
\* row, column or section holds a digit twice.
C6_IsSolvedIffComplete ==
  op = "is_solved" => (ret <=> Complete(board))

\* C7: is_legal_assignment(idxs, value) is true exactly when the cell is
\* empty and value appears nowhere in its row, column and section.
C7_LegalIffEmptyAndAbsent ==
  op = "is_legal_assignment" =>
    /\ board = entry
    /\ \A k \in 1..729 :
         LET a == all_possible_assignments[k]
             i == CellOf(a.idxs)
         IN ret[k] <=> (board[i] = Underscore /\ ~ Appears(board, i, a.value))

\* C7 as amended: the same, on boards where no row, column or section holding
\* the cell has a digit twice; where one has, the call returns false.
C7_LegalIffEmptyAbsentAndUnitsClean ==
  op = "is_legal_assignment" =>
    /\ board = entry
    /\ LET clean == UnitsClean(board)
       IN \A k \in 1..729 :
            LET a == all_possible_assignments[k]
                i == CellOf(a.idxs)
            IN ret[k] <=> /\ board[i] = Underscore
                          /\ ~ Appears(board, i, a.value)
                          /\ clean[i]

C7_Witness ==
  /\ op = "is_legal_assignment"
  /\ \E k \in 1..729 : ret[k]
  /\ LET clean == UnitsClean(board)
     IN \E k \in 1..729 :
          /\ ~ ret[k]
          /\ board[CellOf(all_possible_assignments[k].idxs)] = Underscore
          /\ clean[CellOf(all_possible_assignments[k].idxs)]

\* C8: query_domains returns 81 entries in row-major order, each with its
\* position and the cell's value; the mask of an occupied cell is empty and
\* the mask of an empty cell has bit d-1 set exactly for the digits d that
\* appear nowhere in the cell's row, column and section.
C8_DomainsAreUnusedDigits ==
  op = "query_domains" =>
    /\ Len(ret) = 81
    /\ \A k \in 1..81 :
         /\ ret[k].idxs = [row |-> CellRow(k), col |-> CellCol(k)]
         /\ ret[k].value = board[k]
         /\ board[k] # Underscore => ret[k].legal_assignments = {}
         /\ board[k] = Underscore =>
              ret[k].legal_assignments = {d - CharZero - 1 : d \in Domain(board, k)}

C8_Witness ==
  /\ op = "query_domains"
  /\ \E k \in 1..81 : board[k] # Underscore
  /\ \E k \in 1..81 :
       /\ board[k] = Underscore
       /\ ret[k].legal_assignments # {}
       /\ ret[k].legal_assignments # 0..8

\* C9: has_legal_assignments is true exactly when every empty cell has a
\* digit that appears nowhere in its row, column and section; it is true of
\* the hard board and false of the impossible board.
C9_PossibleIffEveryDomainNonEmpty ==
  op = "has_legal_assignments" =>
    /\ ret <=> \A k \in 1..81 : board[k] = Underscore => Domain(board, k) # {}
    /\ board = Hard => ret
    /\ board = Impossible => ~ ret

C9_Witness ==
  /\ op = "has_legal_assignments"
  /\ board = Impossible
  /\ ~ ret

\* C10: for every empty cell and digit, is_legal_assignment agrees with the
\* bit of the legal_assignments mask of query_domains.
C10_LegalIffDomainBit ==
  op = "is_legal_assignment" =>
    LET domains == query_domains(board)
    IN \A k \in 1..729 :
         LET a == all_possible_assignments[k]
             i == CellOf(a.idxs)
         IN board[i] = Underscore =>
              (ret[k] <=> raw_idx(a.value) \in domains[i].legal_assignments)

\* C10 as amended: they agree on every empty cell whose row, column and
\* section hold no digit twice.
C10_LegalIffDomainBitUnitsClean ==
  op = "is_legal_assignment" =>
    LET domains == query_domains(board)
        clean == UnitsClean(board)
    IN \A k \in 1..729 :
         LET a == all_possible_assignments[k]
             i == CellOf(a.idxs)
         IN (board[i] = Underscore /\ clean[i]) =>
              (ret[k] <=> raw_idx(a.value) \in domains[i].legal_assignments)

C10_Witness ==
  /\ op = "is_legal_assignment"
  /\ LET domains == query_domains(board)
         clean == UnitsClean(board)
     IN /\ \E k \in 1..729 :
             /\ ret[k]
             /\ raw_idx(all_possible_assignments[k].value)
                  \in domains[CellOf(all_possible_assignments[k].idxs)].legal_assignments
        /\ \E k \in 1..729 :
             /\ ~ ret[k]
             /\ board[CellOf(all_possible_assignments[k].idxs)] = Underscore
             /\ clean[CellOf(all_possible_assignments[k].idxs)]

-----------------------------------------------------------------------------
(* Statements about solve *)

\* the canonical solution is a completion of b: it is solved and agrees with
\* b on every cell b has filled
CompletedByCanonical(b) ==
  /\ Complete(Canonical)
  /\ \A i \in 1..81 : b[i] = Underscore \/ b[i] = Canonical[i]

\* solve has ended, or will never end, without returning
EndedWithoutSuccess == pc \in {"exit", "abort", "hang", "crash"}

\* C1: for every input board without duplicate and either callback, when
\* solve returns the caller's board has no empty cell and every row, column
\* and section holds each digit exactly once.
C1_ReturnedBoardIsComplete ==
  (pc = "returned" /\ NoDuplicate(entry)) => Complete(board)

\* C2: for every input board without duplicate that has a completion, solve
\* with either callback ends by returning; it ends otherwise only on boards
\* without completion.
C2_CompletableBoardIsSolved ==
  (NoDuplicate(entry) /\ CompletedByCanonical(entry)) => ~ EndedWithoutSuccess

\* C3: whenever solve ends without a solution, the caller's board is
\* cell for cell what it was on entry, for either callback.
C3_FailureLeavesBoardUntouched ==
  pc = "exit" => board = entry

-----------------------------------------------------------------------------
(* Statements about the trivial moves *)

MoveNames == TrivialVariants \cup {"apply_trivial_move"}

\* the last call was one of the functions returning bool and it has returned
MoveReturned == op \in MoveNames /\ pc = "ready"

Empties(b) == {i \in 1..81 : b[i] = Underscore}

Changed(a, b) == {i \in 1..81 : a[i] # b[i]}

\* C11: on every board on which is_valid holds, when apply_trivial_move or
\* one of its three variants returns true the board still has no digit twice
\* in a row, column or section.
C11_TrivialMoveKeepsNoDuplicate ==
  (MoveReturned /\ ret /\ is_valid(before) /\ NoDuplicate(before))
    => NoDuplicate(board)

\* C12: on every board on which is_valid returns true, when
\* apply_trivial_move returns true exactly one cell has changed, it was empty
\* before and holds a digit after, so there is one empty cell less; when it
\* returns false the board is unchanged.
C12_TrueFillsOneEmptyCell ==
  (pc = "ready" /\ op = "apply_trivial_move" /\ is_valid(before)) =>
    IF ret
      THEN /\ \E i \in 1..81 :
                /\ Changed(before, board) = {i}
                /\ before[i] = Underscore
                /\ board[i] \in Digits
           /\ Cardinality(Empties(board)) = Cardinality(Empties(before)) - 1
      ELSE board = before

C14_OptimizationTerminatesWithCount ==
  (op = "trivial_move_optimization" /\ is_valid(before) /\ NoDuplicate(before))
    => /\ pc = "ready"
       /\ ret <= Cardinality(Empties(before))
       /\ ret = Cardinality({i \in Empties(before) : board[i] \in Digits})
       /\ apply_trivial_move(board, ~ ndebug).status = "none"

\* C15: on the trivially solvable test board (the canonical solution with 21
\* cells emptied), calling apply_trivial_move until it returns false leaves
\* the canonical solution, valid and solved, and the number of calls that
\* returned true is the number of cells that were empty.
C15_TriviallySolvableIsSolved ==
  (entry = trivially_solvable /\ calls = {"apply_trivial_move"})
    => /\ Cardinality(Empties(entry)) = 21
       /\ CompletedByCanonical(entry)
       /\ pc = "ready"
       /\ (op = "apply_trivial_move" /\ ~ ret)
            => /\ board = Canonical
               /\ is_valid(board)
               /\ is_solved(board)
               /\ assignment_count = Cardinality(Empties(entry))

C15_Witness ==
  /\ entry = trivially_solvable
  /\ calls = {"apply_trivial_move"}
  /\ op = "apply_trivial_move"
  /\ pc = "ready"
  /\ ~ ret
  /\ assignment_count = 21

\* the test has called apply_trivial_move, or its variants in some order,
\* and a call of apply_trivial_move would now return false
UntilFalse ==
  /\ pc = "ready"
  /\ op \in MoveNames
  /\ calls \in {{"apply_trivial_move"}, TrivialVariants}
  /\ apply_trivial_move(board, ~ ndebug).status = "none"

KindUnits(name) ==
  IF name = "apply_trivial_row_move" THEN RowSet
  ELSE IF name = "apply_trivial_column_move" THEN ColSet
  ELSE BoxSet

\* what C17 says of one call of a variant that went from board a to board b
\* and returned r, U being the units of the variant's kind
VariantServesLowestUnit(a, b, r, U) ==
  LET single == {u \in 0..8 : Cardinality(Empties(a) \cap U[u]) = 1}
  IN /\ r <=> single # {}
     /\ ~ r => b = a
     /\ r => LET u == CHOOSE x \in single : \A y \in single : x <= y
             IN /\ Changed(a, b) = Empties(a) \cap U[u]
                /\ \A i \in Changed(a, b) : b[i] \in Digits \ DigitsIn(a, U[u])

\* what C17 says of the board b a variant leaves when it returns false after
\* being called again and again from board a
VariantServedAllUnits(a, b, U) ==
  \A u \in 0..8 :
    /\ Cardinality(Empties(a) \cap U[u]) = 1 => Empties(b) \cap U[u] = {}
    /\ Cardinality(Empties(a) \cap U[u]) >= 2 => \A i \in U[u] : b[i] = a[i]

\* C17: on a valid board a variant returns true exactly when some unit of its
\* kind has one empty cell; it fills that cell of the lowest such unit with
\* the digit the unit lacks and changes nothing else.  Repeated until false
\* it fills every unit of its kind that had one empty cell, leaves the units
\* with two or more empty cells untouched, and the board stays valid.
C17_VariantFillsSingleUnits ==
  (pc = "ready" /\ op \in TrivialVariants /\ calls = {op}
     /\ is_valid(before) /\ NoDuplicate(before))
    => /\ VariantServesLowestUnit(before, board, ret, KindUnits(op))
       /\ ~ ret => VariantServedAllUnits(entry, board, KindUnits(op))
       /\ is_valid(board)
       /\ NoDuplicate(board)

-----------------------------------------------------------------------------
(* Statements about the count and about populated boards *)

\* C18: the count solve returns is the number of assignments performed
\* during the call: what the callback returned on the entry board and on
\* every search node, plus one for every copy-and-assign of a candidate
\* digit, none counted twice and none left out.
C18_CountIsAssignmentsPerformed ==
  pc = "returned" => assignment_count = performed

\* C19: on every populated board whose rows, columns and sections hold each
\* digit once, is_solved and is_valid are true and solve with either callback
\* returns 0 and leaves the board as it was.
C19_SolvedBoardReturnsZero ==
  Complete(entry)
    => /\ is_solved(entry)
       /\ is_valid(entry)
       /\ board = entry
       /\ assignment_count = 0
       /\ pc \in {"ready", "loop", "final", "returned"}

C19_Witness ==
  /\ Complete(entry)
  /\ entry # Canonical
  /\ op = "solve"
  /\ pc = "returned"
  /\ cb = "null"

\* C20: on every populated board with a digit twice in some row, column or
\* section, is_valid returns false and solve reports that there is no
\* solution, with a count of 0.
C20_PopulatedDuplicateIsRejected ==
  (is_populated(entry) /\ ~ NoDuplicate(entry)
     /\ op = "solve" /\ pc \notin {"loop", "final"})
    => /\ ~ is_valid(entry)
       /\ pc = "exit"
       /\ assignment_count = 0

-----------------------------------------------------------------------------
(* Statements about assignments and about the search *)

\* C21: for every board and every assignment is_legal_assignment accepts on
\* it, the board try_assign / assign_copy produce satisfies is_valid.
C21_AcceptedAssignmentGivesValidBoard ==
  (op = "assign_copy" /\ ret.accepted) => is_valid(ret.copy)

\* C21 as amended: the same for every board on which is_valid holds; an
\* accepted assignment leaves a duplicate that lies outside the row, column
\* and section of the cell where it was.
C21_AcceptedAssignmentKeepsValidBoard ==
  (op = "assign_copy" /\ ret.accepted)
    => /\ is_valid(board) => is_valid(ret.copy)
       /\ Changed(board, ret.copy) = {CellOf(ret.assignment.idxs)}
       /\ ret.copy[CellOf(ret.assignment.idxs)] = ret.assignment.value

C21_Witness ==
  /\ op = "assign_copy"
  /\ ret.accepted
  /\ is_valid(board)
  /\ ~ is_populated(ret.copy)
  /\ is_valid(ret.copy)

\* C22: every write to a cell made by apply_trivial_move or one of its three
\* variants is a legal assignment at the moment it is made: the target cell
\* is empty and the digit written appears nowhere in the row, the column and
\* the section of the cell.
C22_TrivialWriteIsLegalAssignment ==
  (MoveReturned /\ ret /\ is_valid(before) /\ NoDuplicate(before))
    => \A i \in Changed(before, board) :
         /\ before[i] = Underscore
         /\ ~ Appears(before, i, board[i])

\* the call of solve is over: it has returned, or the process has ended
SolveEnded == pc \in {"returned", "exit", "abort", "crash"}

\* solve has a step to take: the guards of Enter, Iterate and Finish
SolveRunning == pc \in {"ready", "loop", "final"}

\* C23: on every input board and with either callback the call of solve
\* comes to an end: at every moment it has ended or has a next step to take,
\* and is never inside a loop whose state repeats.
C23_SolveTerminates == SolveEnded \/ SolveRunning

\* C24: starting from a board without duplicate on which is_valid holds, no
\* assert fails during solve, with either callback: solve never ends in the
\* abort of a failed assert.
C24_NoAssertFailsFromValidBoard ==
  (is_valid(entry) /\ NoDuplicate(entry)) => pc # "abort"

\* the board has no duplicate and no completion: some empty cell has every
\* digit in its row, column or section
WithoutSolution(b) ==
  /\ NoDuplicate(b)
  /\ \E i \in 1..81 : b[i] = Underscore /\ Domain(b, i) = {}

\* C25: when the input board has no solution solve returns to main, which
\* prints its output and exits with code 0: solve does not end the process
\* itself. Stated for null_optimization, where no trivial move is involved.
C25_SolveReturnsOnBoardWithoutSolution ==
  (cb = "null" /\ WithoutSolution(entry)) => pc # "exit"

\* the first empty cell of b in row-major order
FirstEmptyCell(b) == CHOOSE i \in Empties(b) : \A j \in Empties(b) : i <= j

\* C27: an expansion branches on one cell only, the first empty cell in
\* row-major order.  Stated for the expansion of the entry board under
\* null_optimization, whose children are the nodes of depth 1: each of them
\* differs from the entry board in that cell and in no other.
C27_ChildrenFillFirstEmptyCell ==
  cb = "null"
    => \A k \in 1..Len(frontier) :
         frontier[k].depth = 1
           => Changed(entry, frontier[k].sudoku) = {FirstEmptyCell(entry)}

\* C28: a node leaves the frontier only after it has been expanded, or
\* because its depth reached the limit: where no node of the frontier is at
\* the depth limit, one pass through the loop body removes at most the node
\* on top, and every node below it is still pending afterwards.  Stated for
\* null_optimization.
C28_OnlyExpandedNodeLeaves ==
  [][(/\ cb = "null"
      /\ pc = "loop"
      /\ \A k \in 1..Len(frontier) : frontier[k].depth < max_depth)
       => /\ Len(frontier') >= Len(frontier) - 1
          /\ \A k \in 1..(Len(frontier) - 1) : frontier'[k] = frontier[k]]_vars

\* C29: frontier.top() is evaluated only while the frontier is non-empty.
\* In the model top() on an empty stack is the only origin of pc = "crash"
\* (Iterate, TopOfEmptyOutcomes), so the statement is that no run gets there.
C29_TopOnlyOfNonEmptyFrontier == pc # "crash"

\* b agrees with the entry board on every cell that was filled on entry
KeepsGivens(b) == \A i \in 1..81 : entry[i] = Underscore \/ b[i] = entry[i]

\* C30: for an entry board without duplicate on which is_valid holds, and
\* either callback, every board on the frontier and the caller's board agree
\* with the entry board on every cell that was filled on entry, while solve
\* runs its loop and when it has returned.
C30_GivensAreKept ==
  (is_valid(entry) /\ NoDuplicate(entry) /\ pc \in {"loop", "final", "returned"})
    => /\ KeepsGivens(board)
       /\ \A k \in 1..Len(frontier) : KeepsGivens(frontier[k].sudoku)

====
